---------------------------- MODULE Spec2Model ----------------------------
(***************************************************************************)
(* SmartLightGroup (custom_components/smart_light_group/light.py).         *)
(*                                                                         *)
(* The group object is the record `self`; the host's state machine         *)
(* (hass.states) is `states`; one async_turn_on call is `call` (its        *)
(* locals), `commands` (the service calls handed to asyncio.gather) and    *)
(* `pc` (where the coroutine stands).                                      *)
(*                                                                         *)
(* Optional values (Python None) are sequences of length at most one:      *)
(* None is << >> and a present value v is <<v>>.  Hue and saturation are   *)
(* kept in thousandths (the library rounds them to three decimals), so     *)
(* hs_color (50.0, 40.0) is <<50000, 40000>>.                              *)
(***************************************************************************)
EXTENDS Integers, Sequences, FiniteSets, TLC

VARIABLES self, states, pc, call, commands

vars == <<self, states, pc, call, commands>>

None == << >>
Some(v) == <<v>>
Val(o) == o[1]

(***************************************************************************)
(* Feature flags of homeassistant.components.light.                        *)
(***************************************************************************)
SUPPORT_BRIGHTNESS == 1
SUPPORT_COLOR_TEMP == 2
SUPPORT_EFFECT == 4
SUPPORT_FLASH == 8
SUPPORT_COLOR == 16
SUPPORT_TRANSITION == 32
SUPPORT_WHITE_VALUE == 128

AllFlags == {SUPPORT_BRIGHTNESS, SUPPORT_COLOR_TEMP, SUPPORT_EFFECT, SUPPORT_FLASH,
             SUPPORT_COLOR, SUPPORT_TRANSITION, SUPPORT_WHITE_VALUE}

\* support & flag, for a flag that is one bit
BitAnd(support, flag) == IF (support \div flag) % 2 = 1 THEN flag ELSE 0

RECURSIVE SumOf(_)
SumOf(S) == IF S = {} THEN 0 ELSE LET x == CHOOSE y \in S : TRUE IN x + SumOf(S \ {x})

\* a | b | ... of a set of masks
BitOrAll(masks) == SumOf({f \in AllFlags : \E m \in masks : BitAnd(m, f) # 0})

SUPPORT_GROUP_LIGHT == BitOrAll({SUPPORT_BRIGHTNESS, SUPPORT_COLOR_TEMP, SUPPORT_EFFECT,
                                 SUPPORT_FLASH, SUPPORT_COLOR, SUPPORT_TRANSITION,
                                 SUPPORT_WHITE_VALUE})

(***************************************************************************)
(* Keys of the turn_on keyword arguments and of a service call's data.     *)
(***************************************************************************)
ATTR_BRIGHTNESS == "brightness"
ATTR_COLOR_TEMP == "color_temp"
ATTR_HS_COLOR == "hs_color"
ATTR_WHITE_VALUE == "white_value"
ATTR_ENTITY_ID == "entity_id"
SERVICE_TURN_ON == "turn_on"
SERVICE_TURN_OFF == "turn_off"

LightAttrs == {ATTR_BRIGHTNESS, ATTR_COLOR_TEMP, ATTR_HS_COLOR, ATTR_WHITE_VALUE}

(***************************************************************************)
(* Bounds and the value sets the inputs are drawn from.                    *)
(***************************************************************************)
MaxMembers == 2

EntityIds == {"light.a", "light.b"}

MemberLists == UNION {[1..n -> EntityIds] : n \in 1..MaxMembers}


(***************************************************************************)
(* Configuration: PLATFORM_SCHEMA's options and their shipped defaults.    *)
(***************************************************************************)
ShippedConf ==
    [default_brightness |-> 255, default_color_temp |-> 320,
     default_h |-> 50, default_s |-> 40, default_white_value |-> 255,
     lower_bound_color_temperature_white_lights |-> 175,
     upper_bound_color_temperature_white_lights |-> 450,
     upper_bound_saturation_white_lights |-> 80,
     lower_bound_brightness_non_dimmable_lights |-> 205,
     auto_adapt_white_value |-> TRUE,
     auto_convert_color_temperature_to_hs |-> TRUE]

\* configurations that differ from the shipped one in the defaults
DefaultsConfs ==
    {[ShippedConf EXCEPT !.default_brightness = b, !.default_color_temp = t,
                         !.default_s = s,
                         !.auto_adapt_white_value = w,
                         !.auto_convert_color_temperature_to_hs = c] :
        b \in {255, 200}, t \in {320, 500}, s \in {40, 90},
        w \in BOOLEAN, c \in BOOLEAN}

\* configurations that differ from the shipped one in the toggles and in the
\* upper color temperature threshold
ToggleConfs ==
    {[ShippedConf EXCEPT !.upper_bound_color_temperature_white_lights = u,
                         !.auto_adapt_white_value = w,
                         !.auto_convert_color_temperature_to_hs = c] :
        u \in {450, 250}, w \in BOOLEAN, c \in BOOLEAN}

(***************************************************************************)
(* SmartLightGroup.__init__: the object after construction.                *)
(***************************************************************************)
NewGroup(entity_ids, conf) ==
    [entity_ids |-> entity_ids,
     is_on |-> FALSE,
     available |-> FALSE,
     brightness |-> None,
     hs_color |-> None,
     color_temp |-> None,
     min_mireds |-> 154,
     max_mireds |-> 500,
     white_value |-> None,
     effect_list |-> None,
     effect |-> None,
     supported_features |-> 0,
     default_brightness |-> conf.default_brightness,
     default_color_temp |-> conf.default_color_temp,
     default_h |-> conf.default_h * 1000,
     default_s |-> conf.default_s * 1000,
     default_white_value |-> conf.default_white_value,
     auto_convert_temp_to_hs |-> conf.auto_convert_color_temperature_to_hs,
     auto_adapt_white_value |-> conf.auto_adapt_white_value,
     threshold_lower_temperature_white_lights |->
         conf.lower_bound_color_temperature_white_lights,
     threshold_upper_temperature_white_lights |->
         conf.upper_bound_color_temperature_white_lights,
     threshold_upper_saturation_white_lights |->
         conf.upper_bound_saturation_white_lights * 1000,
     threshold_lower_brightness_non_dimmable_lights |->
         conf.lower_bound_brightness_non_dimmable_lights,
     empty_turn_on_is_reset_to_default |-> TRUE,
     color_temp_before_hs_color |-> TRUE]

\* the fields of the object that are the group's own state
GroupStateFields == {"is_on", "available", "brightness", "hs_color", "color_temp",
                     "min_mireds", "max_mireds", "white_value", "effect_list",
                     "effect", "supported_features"}

GroupState(s) == [f \in GroupStateFields |-> s[f]]

(***************************************************************************)
(* Threshold projections.                                                  *)
(***************************************************************************)
\* the brightness threshold left out
non_dimmable_on_any_brightness(s, brightness, temperature) ==
    s.threshold_lower_temperature_white_lights <= temperature
    /\ temperature <= s.threshold_upper_temperature_white_lights

non_dimmable_on_by_temperature(s, brightness, temperature) ==
    (brightness > s.threshold_lower_brightness_non_dimmable_lights)
    /\ (s.threshold_lower_temperature_white_lights <= temperature
        /\ temperature <= s.threshold_upper_temperature_white_lights)

non_dimmable_on_by_saturation(s, brightness, saturation) ==
    (brightness > s.threshold_lower_brightness_non_dimmable_lights)
    /\ (saturation < s.threshold_upper_saturation_white_lights)

brightness_for_dimmable_by_temperature(s, brightness, temperature) ==
    IF s.threshold_lower_temperature_white_lights <= temperature
       /\ temperature <= s.threshold_upper_temperature_white_lights
    THEN brightness ELSE 0

brightness_for_dimmable_by_saturation(s, brightness, saturation) ==
    IF saturation < s.threshold_upper_saturation_white_lights THEN brightness ELSE 0

brightness_for_temperature(s, brightness, saturation) ==
    IF saturation < s.threshold_upper_saturation_white_lights THEN brightness ELSE 0

(***************************************************************************)
(* Color math.  color_util.color_temperature_mired_to_kelvin is            *)
(* floor(1000000 / mired).  color_util.color_temperature_to_hs clamps the  *)
(* Kelvin value to [1000, 40000] and evaluates the black-body              *)
(* approximation in floating point; its results, rounded to three          *)
(* decimals by the library, are tabulated here for the Kelvin values the   *)
(* model's mired values give.                                              *)
(***************************************************************************)
color_temperature_mired_to_kelvin(mired) == 1000000 \div mired

color_temperature_to_hs(kelvin) ==
    LET k == IF kelvin < 1000 THEN 1000 ELSE IF kelvin > 40000 THEN 40000 ELSE kelvin
    IN  CASE k = 40000 -> <<220341, 40520>>
          [] k = 10000 -> <<221575, 20900>>
          [] k = 6493  -> <<48348, 2014>>
          [] k = 5714  -> <<28745, 10321>>
          [] k = 5000  -> <<27001, 19243>>
          [] k = 4000  -> <<26812, 34870>>
          [] k = 3333  -> <<27355, 48529>>
          [] k = 3125  -> <<27631, 53602>>
          [] k = 2500  -> <<28874, 72522>>
          [] k = 2222  -> <<29719, 83657>>
          [] k = 2000  -> <<30601, 94547>>
          [] k = 1666  -> <<27928, 100000>>
          [] k = 1000  -> <<15981, 100000>>

hs_color_for_temperature(temperature) ==
    color_temperature_to_hs(color_temperature_mired_to_kelvin(temperature))

\* color_util.color_hsv_to_RGB(h, s, v) truncates 255 * colorsys.hsv_to_rgb;
\* the smallest of the three channels is v * (1 - s), with v = brightness / 255.
calculate_white_value(s, hs_color, brightness) ==
    IF hs_color[2] < s.threshold_upper_saturation_white_lights
    THEN LET min_rgb == (brightness * (100000 - hs_color[2])) \div 100000
         IN  (min_rgb * brightness) \div 255
    ELSE 0

(***************************************************************************)
(* Capability classification (the loop over self._entity_ids).             *)
(***************************************************************************)
TEMPERATURE_AND_COLOR == "temperature_and_color"
COLOR_AND_WHITE == "color_and_white"
COLOR == "color"
TEMPERATURE == "temperature"
DIMMABLE == "dimmable"
NON_DIMMABLE == "non_dimmable"

Buckets == {TEMPERATURE_AND_COLOR, COLOR_AND_WHITE, COLOR, TEMPERATURE, DIMMABLE,
            NON_DIMMABLE}

\* the chain with its branches tested independently (`if` for each `elif`,
\* the rgbw branch not excluded by the branch before it)
BucketMisrouted(support) ==
    LET sup_bri == BitAnd(support, SUPPORT_BRIGHTNESS) # 0
        sup_col == BitAnd(support, SUPPORT_COLOR) # 0
        sup_white_value == BitAnd(support, SUPPORT_WHITE_VALUE) # 0
        sup_temp == BitAnd(support, SUPPORT_COLOR_TEMP) # 0
    IN  {b \in Buckets :
            \/ b = TEMPERATURE_AND_COLOR /\ sup_bri /\ sup_col /\ sup_temp
            \/ b = COLOR_AND_WHITE /\ sup_bri /\ sup_col /\ sup_white_value
            \/ b = COLOR /\ sup_bri /\ sup_col /\ ~sup_temp /\ ~sup_white_value
            \/ b = TEMPERATURE /\ sup_bri /\ sup_temp /\ ~sup_col
            \/ b = DIMMABLE /\ sup_bri /\ ~sup_col /\ ~sup_temp
            \/ b = NON_DIMMABLE /\ ~sup_bri}

\* the if / elif chain over the four capability bits of one member: the
\* buckets the member is appended to
BucketsOf(support) ==
    LET sup_bri == BitAnd(support, SUPPORT_BRIGHTNESS) # 0
        sup_col == BitAnd(support, SUPPORT_COLOR) # 0
        sup_white_value == BitAnd(support, SUPPORT_WHITE_VALUE) # 0
        sup_temp == BitAnd(support, SUPPORT_COLOR_TEMP) # 0
    IN  IF sup_bri /\ sup_col /\ sup_temp THEN {TEMPERATURE_AND_COLOR}
        ELSE IF sup_bri /\ sup_col /\ sup_white_value THEN {COLOR_AND_WHITE}
        ELSE IF sup_bri /\ sup_col THEN {COLOR}
        ELSE IF sup_bri /\ sup_temp THEN {TEMPERATURE}
        ELSE IF sup_bri THEN {DIMMABLE}
        ELSE {NON_DIMMABLE}

\* a member whose state is missing is skipped (`if not state: continue`)
AppendedTo(bucket, entity_id, st) ==
    /\ st[entity_id] # None
    /\ bucket \in BucketsOf(Val(st[entity_id]).supported_features)

RECURSIVE EntityIdsOf(_, _, _)
EntityIdsOf(bucket, entity_ids, st) ==
    IF entity_ids = << >> THEN << >>
    ELSE LET rest == EntityIdsOf(bucket, SubSeq(entity_ids, 1, Len(entity_ids) - 1), st)
             last == entity_ids[Len(entity_ids)]
         IN  IF AppendedTo(bucket, last, st) THEN Append(rest, last) ELSE rest

Classify(entity_ids, st) == [b \in Buckets |-> EntityIdsOf(b, entity_ids, st)]

(***************************************************************************)
(* async_turn_on: resolution of the target values.                         *)
(***************************************************************************)
Supplied(kwargs, attr) == attr \in DOMAIN kwargs

\* reset whenever the group was off, whatever the request holds
is_reset_to_default_when_off(s, was_off, no_light_attr_supplied) ==
    was_off \/ (s.empty_turn_on_is_reset_to_default /\ no_light_attr_supplied)

\* reset only when the group was off: the bare turn-on of a group that is on
\* keeps its values
is_reset_to_default_only_off(s, was_off, no_light_attr_supplied) ==
    was_off /\ no_light_attr_supplied

is_reset_to_default(s, was_off, no_light_attr_supplied) ==
    (s.empty_turn_on_is_reset_to_default \/ was_off) /\ no_light_attr_supplied

\* new_<attr> and using_old_<attr> of one attribute
ResolveAttr(kwargs, attr, old, default, allow_using_old_values) ==
    IF Supplied(kwargs, attr)
    THEN [new |-> kwargs[attr], using_old |-> FALSE]
    ELSE IF old # None /\ allow_using_old_values
    THEN [new |-> Val(old), using_old |-> TRUE]
    ELSE [new |-> default, using_old |-> FALSE]

\* the color temperature counted as newer also when a chromaticity is supplied
color_temp_newer_ignoring_supplied_hs(supplied_hs, supplied_temp, old_temp, old_hs) ==
    supplied_temp \/ (old_temp /\ ~old_hs)

color_temp_has_newer_value_than_hs_color(supplied_hs, supplied_temp, old_temp, old_hs) ==
    ~supplied_hs /\ (supplied_temp \/ (old_temp /\ ~old_hs))

do_convert_temp_to_hs(s, is_reset, color_temp_newer) ==
    s.auto_convert_temp_to_hs /\ ~is_reset /\ color_temp_newer

other_attributes_have_newer_values_than_white_value(supplied_white, other_supplied, old_white, other_old) ==
    ~supplied_white /\ (other_supplied \/ (old_white /\ ~other_old))

\* the white value left as resolved, never derived
do_adapt_never(s, is_reset, others_newer) == FALSE

do_adapt_white_value(s, is_reset, others_newer) ==
    s.auto_adapt_white_value /\ ~is_reset /\ others_newer

\* ties broken toward the chromaticity: it wins whenever it was supplied
hs_color_newer_with_tie_to_hs(supplied_temp, supplied_hs, old_hs, old_temp) ==
    supplied_hs \/ (~supplied_temp /\ old_hs /\ ~old_temp)

hs_color_has_newer_value_than_color_temp(supplied_temp, supplied_hs, old_hs, old_temp) ==
    ~supplied_temp /\ (supplied_hs \/ (old_hs /\ ~old_temp))

Resolve(kwargs, s) ==
    LET was_off == ~s.is_on
        old_brightness == s.brightness
        old_color_temp == s.color_temp
        old_hs_color == s.hs_color
        old_white_value == s.white_value
        supplied_brightness == Supplied(kwargs, ATTR_BRIGHTNESS)
        supplied_color_temp == Supplied(kwargs, ATTR_COLOR_TEMP)
        supplied_hs_color == Supplied(kwargs, ATTR_HS_COLOR)
        supplied_white_value == Supplied(kwargs, ATTR_WHITE_VALUE)
        no_light_attr_supplied ==
            ~supplied_brightness /\ ~supplied_color_temp /\ ~supplied_hs_color
            /\ ~supplied_white_value
        is_reset == is_reset_to_default(s, was_off, no_light_attr_supplied)
        allow_using_old_values == ~is_reset
        bri == ResolveAttr(kwargs, ATTR_BRIGHTNESS, old_brightness,
                           s.default_brightness, allow_using_old_values)
        temp == ResolveAttr(kwargs, ATTR_COLOR_TEMP, old_color_temp,
                            s.default_color_temp, allow_using_old_values)
        hs == ResolveAttr(kwargs, ATTR_HS_COLOR, old_hs_color,
                          <<s.default_h, s.default_s>>, allow_using_old_values)
        white == ResolveAttr(kwargs, ATTR_WHITE_VALUE, old_white_value,
                             s.default_white_value, allow_using_old_values)
        apply_all_attributes == was_off \/ is_reset
        color_temp_newer ==
            color_temp_has_newer_value_than_hs_color(
                supplied_hs_color, supplied_color_temp, temp.using_old, hs.using_old)
        do_convert == do_convert_temp_to_hs(s, is_reset, color_temp_newer)
        new_hs_color == IF do_convert THEN hs_color_for_temperature(temp.new) ELSE hs.new
        \* `supplied_hs_color = True` after the conversion
        supplied_hs_color_2 == supplied_hs_color \/ do_convert
        other_supplied == supplied_hs_color_2 \/ supplied_color_temp \/ supplied_brightness
        other_use_old == hs.using_old \/ temp.using_old \/ bri.using_old
        others_newer ==
            other_attributes_have_newer_values_than_white_value(
                supplied_white_value, other_supplied, white.using_old, other_use_old)
        do_adapt == do_adapt_white_value(s, is_reset, others_newer)
        new_white_value ==
            IF do_adapt THEN calculate_white_value(s, new_hs_color, bri.new) ELSE white.new
        hs_newer ==
            hs_color_has_newer_value_than_color_temp(
                supplied_color_temp, supplied_hs_color_2, hs.using_old, temp.using_old)
    IN  [was_off |-> was_off,
         old_brightness |-> old_brightness,
         old_color_temp |-> old_color_temp,
         old_hs_color |-> old_hs_color,
         old_white_value |-> old_white_value,
         no_light_attr_supplied |-> no_light_attr_supplied,
         is_reset_to_default |-> is_reset,
         new_brightness |-> bri.new,
         using_old_brightness |-> bri.using_old,
         new_color_temp |-> temp.new,
         using_old_color_temp |-> temp.using_old,
         using_old_hs_color |-> hs.using_old,
         using_old_white_value |-> white.using_old,
         apply_brightness |-> supplied_brightness \/ apply_all_attributes,
         apply_color_temp |-> supplied_color_temp \/ apply_all_attributes,
         do_convert_temp_to_hs |-> do_convert,
         \* the mireds handed to _hs_color_for_temperature, None when it is not called
         converted_temperature |-> IF do_convert THEN Some(temp.new) ELSE None,
         new_hs_color |-> new_hs_color,
         apply_hs_color |-> supplied_hs_color_2 \/ do_convert \/ apply_all_attributes,
         do_adapt_white_value |-> do_adapt,
         new_white_value |-> new_white_value,
         apply_white_value |-> supplied_white_value \/ do_adapt \/ apply_all_attributes,
         hs_color_has_newer_value_than_color_temp |-> hs_newer,
         new_non_dimmable_on |->
             IF hs_newer
             THEN non_dimmable_on_by_saturation(s, bri.new, new_hs_color[2])
             ELSE non_dimmable_on_by_temperature(s, bri.new, temp.new),
         new_brightness_for_dimmable |->
             IF hs_newer
             THEN brightness_for_dimmable_by_saturation(s, bri.new, new_hs_color[2])
             ELSE brightness_for_dimmable_by_temperature(s, bri.new, temp.new),
         new_brightness_for_temperature |->
             IF hs_newer
             THEN brightness_for_temperature(s, bri.new, new_hs_color[2])
             ELSE bri.new,
         use_color_temp_for_temperature_and_color_entities |->
             ~hs_newer /\ s.color_temp_before_hs_color]

(***************************************************************************)
(* async_turn_on: the service calls, one per non-empty bucket, in the      *)
(* order the code appends them.                                            *)
(***************************************************************************)
Command(bucket, service, data) ==
    [bucket |-> bucket, service |-> service, data |-> data, status |-> "pending"]

\* both attributes in the one call
TemperatureAndColorDataBoth(entity_ids, r) ==
    [entity_id |-> entity_ids, brightness |-> r.new_brightness,
     color_temp |-> r.new_color_temp, hs_color |-> r.new_hs_color]

TemperatureAndColorData(entity_ids, r) ==
    IF r.use_color_temp_for_temperature_and_color_entities
    THEN [entity_id |-> entity_ids, brightness |-> r.new_brightness,
          color_temp |-> r.new_color_temp]
    ELSE [entity_id |-> entity_ids, brightness |-> r.new_brightness,
          hs_color |-> r.new_hs_color]

\* a service call for every bucket, the empty ones too
CommandsUnguarded(b, r) ==
    << Command(NON_DIMMABLE,
               IF r.new_non_dimmable_on THEN SERVICE_TURN_ON ELSE SERVICE_TURN_OFF,
               [entity_id |-> b[NON_DIMMABLE]]),
       Command(DIMMABLE, SERVICE_TURN_ON,
               [entity_id |-> b[DIMMABLE],
                brightness |-> r.new_brightness_for_dimmable]),
       Command(TEMPERATURE, SERVICE_TURN_ON,
               [entity_id |-> b[TEMPERATURE],
                brightness |-> r.new_brightness_for_temperature,
                color_temp |-> r.new_color_temp]),
       Command(COLOR_AND_WHITE, SERVICE_TURN_ON,
               [entity_id |-> b[COLOR_AND_WHITE],
                brightness |-> r.new_brightness,
                hs_color |-> r.new_hs_color,
                white_value |-> r.new_white_value]),
       Command(COLOR, SERVICE_TURN_ON,
               [entity_id |-> b[COLOR],
                brightness |-> r.new_brightness,
                hs_color |-> r.new_hs_color]),
       Command(TEMPERATURE_AND_COLOR, SERVICE_TURN_ON,
               TemperatureAndColorData(b[TEMPERATURE_AND_COLOR], r)) >>

Commands(b, r) ==
    (IF b[NON_DIMMABLE] # << >>
     THEN <<Command(NON_DIMMABLE,
                    IF r.new_non_dimmable_on THEN SERVICE_TURN_ON ELSE SERVICE_TURN_OFF,
                    [entity_id |-> b[NON_DIMMABLE]])>>
     ELSE << >>)
    \o (IF b[DIMMABLE] # << >>
        THEN <<Command(DIMMABLE, SERVICE_TURN_ON,
                       [entity_id |-> b[DIMMABLE],
                        brightness |-> r.new_brightness_for_dimmable])>>
        ELSE << >>)
    \o (IF b[TEMPERATURE] # << >>
        THEN <<Command(TEMPERATURE, SERVICE_TURN_ON,
                       [entity_id |-> b[TEMPERATURE],
                        brightness |-> r.new_brightness_for_temperature,
                        color_temp |-> r.new_color_temp])>>
        ELSE << >>)
    \o (IF b[COLOR_AND_WHITE] # << >>
        THEN <<Command(COLOR_AND_WHITE, SERVICE_TURN_ON,
                       [entity_id |-> b[COLOR_AND_WHITE],
                        brightness |-> r.new_brightness,
                        hs_color |-> r.new_hs_color,
                        white_value |-> r.new_white_value])>>
        ELSE << >>)
    \o (IF b[COLOR] # << >>
        THEN <<Command(COLOR, SERVICE_TURN_ON,
                       [entity_id |-> b[COLOR],
                        brightness |-> r.new_brightness,
                        hs_color |-> r.new_hs_color])>>
        ELSE << >>)
    \o (IF b[TEMPERATURE_AND_COLOR] # << >>
        THEN <<Command(TEMPERATURE_AND_COLOR, SERVICE_TURN_ON,
                       TemperatureAndColorData(b[TEMPERATURE_AND_COLOR], r))>>
        ELSE << >>)

(***************************************************************************)
(* The state machine.                                                      *)
(***************************************************************************)
NoCall == << >>

\* the object once async_turn_on has stored the target it resolved
SelfWithTargetStored(s, r) ==
    [s EXCEPT !.is_on = TRUE,
              !.brightness = Some(r.new_brightness),
              !.color_temp = Some(r.new_color_temp),
              !.hs_color = Some(r.new_hs_color),
              !.white_value = Some(r.new_white_value)]

\* async_turn_on assigns no attribute of the object
SelfAfterTurnOn(s, r) == s

\* async_turn_on up to its await: the locals, and the calls handed to gather.
\* With no command the coroutine returns without awaiting.
TurnOn(kwargs) ==
    /\ pc # "gather"
    /\ LET r == Resolve(kwargs, self)
           b == Classify(self.entity_ids, states)
           cmds == Commands(b, r)
       IN  /\ call' = [kwargs |-> kwargs, buckets |-> b, locals |-> r,
                       \* history: the call follows, with nothing in between, a
                       \* finished call with the same arguments
                       repeated |-> pc # "idle" /\ call.kwargs = kwargs]
           /\ commands' = cmds
           /\ pc' = IF cmds = << >> THEN "returned" ELSE "gather"
           /\ self' = SelfAfterTurnOn(self, r)
    /\ UNCHANGED states

Pending(i) == commands[i].status = "pending"

\* a service call made with blocking=True returns
Complete(i) ==
    /\ pc \in {"gather", "raised"}
    /\ Pending(i)
    /\ commands' = [commands EXCEPT ![i].status = "done"]
    /\ UNCHANGED <<self, states, pc, call>>

\* a service call raises
Fail(i) ==
    /\ pc \in {"gather", "raised"}
    /\ Pending(i)
    /\ commands' = [commands EXCEPT ![i].status = "failed"]
    /\ UNCHANGED <<self, states, pc, call>>

\* asyncio.gather(*commands) has every result
GatherReturns ==
    /\ pc = "gather"
    /\ \A i \in DOMAIN commands : commands[i].status = "done"

\* asyncio.gather without return_exceptions: the first exception is raised in
\* the awaiting coroutine at once, the other awaitables keep running
GatherRaises ==
    /\ pc = "gather"
    /\ \E i \in DOMAIN commands : commands[i].status = "failed"

Return ==
    /\ GatherReturns
    /\ pc' = "returned"
    /\ UNCHANGED <<self, states, call, commands>>

Raise ==
    /\ GatherRaises
    /\ pc' = "raised"
    /\ UNCHANGED <<self, states, call, commands>>

LiveMasks(entity_ids, st) ==
    {Val(st[entity_ids[i]]).supported_features :
        i \in {j \in DOMAIN entity_ids : st[entity_ids[j]] # None}}

\* the coroutine is finished with: its locals are gone.  Service calls still
\* running after an exception run on, out of the group's sight.
Release ==
    /\ pc \in {"returned", "raised"}
    /\ pc' = "idle"
    /\ call' = NoCall
    /\ commands' = << >>
    /\ UNCHANGED <<self, states>>

\* The group's update (inherited from LightGroup), taken between two calls:
\* the attributes are reduced over the members that are on, so an off group
\* holds none.
Poll(g) ==
    /\ pc = "idle"
    /\ g.is_on => LiveMasks(self.entity_ids, states) # {}
    /\ ~g.is_on => /\ g.brightness = None /\ g.hs_color = None
                   /\ g.color_temp = None /\ g.white_value = None
                   /\ g.effect = None /\ g.effect_list = None
    /\ self' = [self EXCEPT
                  !.is_on = g.is_on,
                  !.available = LiveMasks(self.entity_ids, states) # {},
                  !.brightness = g.brightness,
                  !.hs_color = g.hs_color,
                  !.color_temp = g.color_temp,
                  !.white_value = g.white_value,
                  !.min_mireds = g.min_mireds,
                  !.max_mireds = g.max_mireds,
                  !.effect_list = g.effect_list,
                  !.effect = g.effect,
                  !.supported_features =
                      SumOf({f \in AllFlags :
                               /\ BitAnd(BitOrAll(LiveMasks(self.entity_ids, states)), f) # 0
                               /\ BitAnd(SUPPORT_GROUP_LIGHT, f) # 0})]
    /\ UNCHANGED <<states, pc, call, commands>>

\* hass.states: a member's state appears, changes its features or disappears
StateChanged(entity_id, state) ==
    /\ pc = "idle"
    /\ states[entity_id] # state
    /\ states' = [states EXCEPT ![entity_id] = state]
    /\ UNCHANGED <<self, pc, call, commands>>

(***************************************************************************)
(* Inputs.                                                                 *)
(***************************************************************************)
\* the keyword arguments of a call: only the supplied keys are present
KwArgs(b, t, h, w) ==
    [a \in {x \in LightAttrs :
              \/ x = ATTR_BRIGHTNESS /\ b # None
              \/ x = ATTR_COLOR_TEMP /\ t # None
              \/ x = ATTR_HS_COLOR /\ h # None
              \/ x = ATTR_WHITE_VALUE /\ w # None} |->
        CASE a = ATTR_BRIGHTNESS -> Val(b)
          [] a = ATTR_COLOR_TEMP -> Val(t)
          [] a = ATTR_HS_COLOR -> Val(h)
          [] a = ATTR_WHITE_VALUE -> Val(w)]

EmptyRequest == KwArgs(None, None, None, None)

AllRequests ==
    {KwArgs(b, t, h, w) :
        b \in {None, Some(100), Some(255)},
        t \in {None, Some(300), Some(600)},
        h \in {None, Some(<<240000, 100000>>), Some(<<30000, 20000>>)},
        w \in {None, Some(50)}}

FewRequests ==
    {EmptyRequest,
     KwArgs(None, Some(300), None, None),
     KwArgs(None, Some(600), Some(<<30000, 20000>>), None)}

Polled(on, b, t, h, w, e, lo, hi) ==
    [is_on |-> on, brightness |-> b, color_temp |-> t, hs_color |-> h,
     white_value |-> w, effect |-> e,
     effect_list |-> IF e = None THEN None ELSE Some({Val(e)}),
     min_mireds |-> lo, max_mireds |-> hi]

OffGroup == Polled(FALSE, None, None, None, None, None, 154, 500)

AllGroupStates ==
    {OffGroup} \cup
    {Polled(TRUE, b, t, h, w, None, 154, 500) :
        b \in {None, Some(100)}, t \in {None, Some(300)},
        h \in {None, Some(<<30000, 70000>>)}, w \in {None, Some(128)}}

FewGroupStates ==
    {OffGroup,
     Polled(TRUE, None, None, None, None, None, 154, 500),
     Polled(TRUE, Some(100), Some(300), None, None, None, 200, 400),
     Polled(TRUE, Some(100), Some(300), Some(<<30000, 70000>>), Some(128),
            Some("colorloop"), 154, 500)}

State(support) == Some([supported_features |-> support])

\* every combination of the four capability bits, and one with the other bits
AllMasks ==
    {SumOf(S) : S \in SUBSET {SUPPORT_BRIGHTNESS, SUPPORT_COLOR_TEMP, SUPPORT_COLOR,
                              SUPPORT_WHITE_VALUE}}
    \cup {SUPPORT_BRIGHTNESS + SUPPORT_EFFECT + SUPPORT_FLASH + SUPPORT_TRANSITION}

\* a hue color light, a dimmable light and an on/off light
FewMasks ==
    {SUPPORT_BRIGHTNESS + SUPPORT_COLOR + SUPPORT_COLOR_TEMP,
     SUPPORT_BRIGHTNESS,
     SUPPORT_EFFECT}

NoStates == [e \in EntityIds |-> None]

\* two snapshots that between them fill the hue-color, dimmable and on/off
\* buckets and leave one member without a state
FixedSnapshots ==
    {[NoStates EXCEPT
        !["light.a"] = State(SUPPORT_BRIGHTNESS + SUPPORT_COLOR + SUPPORT_COLOR_TEMP),
        !["light.b"] = State(SUPPORT_BRIGHTNESS)],
     [NoStates EXCEPT !["light.a"] = State(0)]}

(***************************************************************************)
(* Specifications.                                                         *)
(***************************************************************************)
InitWith(lists, confs, snapshots) ==
    /\ self \in {NewGroup(l, c) : l \in lists, c \in confs}
    /\ states \in snapshots
    /\ pc = "idle"
    /\ call = NoCall
    /\ commands = << >>

TurnOnAny(requests) == \E kwargs \in requests : TurnOn(kwargs)

\* a call made after the previous one is finished with
TurnOnIdle(requests) == pc = "idle" /\ TurnOnAny(requests)

PollAny(groupStates) == \E g \in groupStates : Poll(g)

StateChangedAny(masks) ==
    \E e \in EntityIds, st \in {None} \cup {State(m) : m \in masks} : StateChanged(e, st)

CompleteAny == \E i \in DOMAIN commands : Complete(i)

FailAny == \E i \in DOMAIN commands : Fail(i)

\* the group with the shipped configuration, its members coming and going,
\* calls following one another
Init == InitWith(MemberLists, {ShippedConf}, {NoStates})

Next ==
    \/ TurnOnAny(FewRequests)
    \/ CompleteAny
    \/ FailAny
    \/ Return
    \/ Raise
    \/ Release
    \/ PollAny(FewGroupStates)
    \/ StateChangedAny(FewMasks)

Spec == Init /\ [][Next]_vars

\* every combination of capability bits, a bare turn-on
NextClassify ==
    \/ TurnOnIdle({EmptyRequest})
    \/ CompleteAny
    \/ Return
    \/ Release
    \/ StateChangedAny(AllMasks)

SpecClassify == Init /\ [][NextClassify]_vars

\* every request against every polled state, both toggles either way
InitResolve == InitWith({<<"light.a", "light.b">>}, ToggleConfs, FixedSnapshots)

NextResolve ==
    \/ TurnOnIdle(AllRequests)
    \/ CompleteAny
    \/ FailAny
    \/ Return
    \/ Raise
    \/ Release
    \/ PollAny(AllGroupStates)

SpecResolve == InitResolve /\ [][NextResolve]_vars

\* a bare turn-on under every combination of the configured defaults
InitDefaults == InitWith({<<"light.a", "light.b">>}, DefaultsConfs, FixedSnapshots)

NextDefaults ==
    \/ TurnOnAny({EmptyRequest})
    \/ CompleteAny
    \/ FailAny
    \/ Return
    \/ Raise
    \/ Release
    \/ PollAny(AllGroupStates)

SpecDefaults == InitDefaults /\ [][NextDefaults]_vars

(***************************************************************************)
(* Properties.                                                             *)
(***************************************************************************)
InCall == pc # "idle"

Locals == call.locals

Range(seq) == {seq[i] : i \in DOMAIN seq}

Members == Range(self.entity_ids)

CommandsFor(bucket) == {c \in Range(commands) : c.bucket = bucket}

Has(support, flag) == BitAnd(support, flag) # 0

\* the bucket a feature mask belongs to, each bucket by its own condition
BucketByCapability(support) ==
    LET bri == Has(support, SUPPORT_BRIGHTNESS)
        col == Has(support, SUPPORT_COLOR)
        temp == Has(support, SUPPORT_COLOR_TEMP)
        white == Has(support, SUPPORT_WHITE_VALUE)
    IN  CASE bri /\ col /\ temp -> TEMPERATURE_AND_COLOR
          [] bri /\ col /\ ~temp /\ white -> COLOR_AND_WHITE
          [] bri /\ col /\ ~temp /\ ~white -> COLOR
          [] bri /\ ~col /\ temp -> TEMPERATURE
          [] bri /\ ~col /\ ~temp -> DIMMABLE
          [] ~bri -> NON_DIMMABLE

\* C1: the six buckets built by a call partition the members that have a
\* state: each such member is in exactly one bucket, the first that matches in
\* the order hue-color, rgbw, rgb, temperature, dimmable, on/off; a member
\* without a state is in no bucket and in no service call's entity list.
C1_BucketsPartitionLiveMembers ==
    InCall =>
        \A e \in Members :
            LET holding == {b \in Buckets : e \in Range(call.buckets[b])}
                naming == {c \in Range(commands) : e \in Range(c.data.entity_id)}
            IN  IF states[e] # None
                THEN holding = {BucketByCapability(Val(states[e]).supported_features)}
                ELSE holding = {} /\ naming = {}

\* a call classified a member with all four capabilities beside a member
\* without a state
C1_Witness ==
    /\ pc = "gather"
    /\ \E e \in Members : states[e] = None
    /\ \E e \in Members :
          /\ states[e] # None
          /\ Val(states[e]).supported_features =
                SUPPORT_BRIGHTNESS + SUPPORT_COLOR_TEMP + SUPPORT_COLOR + SUPPORT_WHITE_VALUE

Unsupplied(attr) == ~Supplied(call.kwargs, attr)

DefaultHs == <<self.default_h, self.default_s>>

AllDefaults ==
    /\ Locals.new_brightness = self.default_brightness
    /\ Locals.new_color_temp = self.default_color_temp
    /\ Locals.new_hs_color = DefaultHs
    /\ Locals.new_white_value = self.default_white_value

OldOr(old, default) == IF old # None THEN Val(old) ELSE default

\* C2 as stated: a call on a group that was off resets to the defaults
\* whatever it supplies, so every attribute it does not supply takes its
\* configured default.
C2_OffAlwaysResets ==
    InCall /\ Locals.was_off =>
        /\ Locals.is_reset_to_default
        /\ Unsupplied(ATTR_BRIGHTNESS) => Locals.new_brightness = self.default_brightness
        /\ Unsupplied(ATTR_COLOR_TEMP) => Locals.new_color_temp = self.default_color_temp
        /\ Unsupplied(ATTR_HS_COLOR) => Locals.new_hs_color = DefaultHs
        /\ Unsupplied(ATTR_WHITE_VALUE) => Locals.new_white_value = self.default_white_value

\* C2 amended: a call on a group that was off resets to the defaults exactly
\* when it supplies none of the four attributes, and then all four take their
\* defaults.  When it supplies some attribute, an unsupplied brightness or
\* color temperature takes the previous value if the group holds one and the
\* default otherwise; an unsupplied chromaticity is converted from the
\* resolved color temperature when the conversion is enabled and the color
\* temperature is supplied (or carried over while the chromaticity is not),
\* and else is the previous value or the default; an unsupplied white value
\* is derived from the resolved chromaticity and brightness when the
\* derivation is enabled, and else is the previous value or the default.
C2_OffResetsOnlyWhenEmpty ==
    InCall /\ Locals.was_off =>
        /\ Locals.is_reset_to_default = (DOMAIN call.kwargs = {})
        /\ DOMAIN call.kwargs = {} => AllDefaults
        /\ DOMAIN call.kwargs # {} =>
            /\ Unsupplied(ATTR_BRIGHTNESS) =>
                  Locals.new_brightness = OldOr(Locals.old_brightness, self.default_brightness)
            /\ Unsupplied(ATTR_COLOR_TEMP) =>
                  Locals.new_color_temp = OldOr(Locals.old_color_temp, self.default_color_temp)
            /\ Unsupplied(ATTR_HS_COLOR) =>
                  Locals.new_hs_color =
                     IF /\ self.auto_convert_temp_to_hs
                        /\ \/ Supplied(call.kwargs, ATTR_COLOR_TEMP)
                           \/ Locals.old_color_temp # None /\ Locals.old_hs_color = None
                     THEN hs_color_for_temperature(Locals.new_color_temp)
                     ELSE OldOr(Locals.old_hs_color, DefaultHs)
            /\ Unsupplied(ATTR_WHITE_VALUE) =>
                  Locals.new_white_value =
                     IF self.auto_adapt_white_value
                     THEN calculate_white_value(self, Locals.new_hs_color, Locals.new_brightness)
                     ELSE OldOr(Locals.old_white_value, self.default_white_value)

\* a group that was off is turned on with a brightness alone, and the white
\* value it resolves is not the default
C2_Witness ==
    /\ InCall
    /\ Locals.was_off
    /\ DOMAIN call.kwargs = {ATTR_BRIGHTNESS}
    /\ ~Locals.is_reset_to_default
    /\ Locals.new_white_value # self.default_white_value

\* C3: a call that supplies none of the four attributes, on a group that is
\* off or (the bare turn-on being a reset) on, resolves all four to exactly
\* the configured defaults, whatever the group held before and however the
\* two toggles are set: nothing is carried over, converted or derived.
C3_BareTurnOnResolvesToDefaults ==
    InCall /\ DOMAIN call.kwargs = {}
           /\ (Locals.was_off \/ self.empty_turn_on_is_reset_to_default) =>
        /\ Locals.is_reset_to_default
        /\ AllDefaults
        /\ ~Locals.using_old_brightness /\ ~Locals.using_old_color_temp
        /\ ~Locals.using_old_hs_color /\ ~Locals.using_old_white_value
        /\ ~Locals.do_convert_temp_to_hs /\ ~Locals.do_adapt_white_value

\* a bare turn-on of a group that is on and holds all four values, none of
\* them the default, with both toggles enabled
C3_Witness ==
    /\ InCall
    /\ DOMAIN call.kwargs = {}
    /\ ~Locals.was_off
    /\ Locals.old_brightness # None /\ Locals.old_color_temp # None
    /\ Locals.old_hs_color # None /\ Locals.old_white_value # None
    /\ Val(Locals.old_brightness) # self.default_brightness
    /\ Val(Locals.old_color_temp) # self.default_color_temp
    /\ self.auto_convert_temp_to_hs /\ self.auto_adapt_white_value

BothSupplied ==
    Supplied(call.kwargs, ATTR_COLOR_TEMP) /\ Supplied(call.kwargs, ATTR_HS_COLOR)

InTemperatureRange(temperature) ==
    /\ self.threshold_lower_temperature_white_lights <= temperature
    /\ temperature <= self.threshold_upper_temperature_white_lights

BelowSaturationThreshold(saturation) ==
    saturation < self.threshold_upper_saturation_white_lights

AboveBrightnessThreshold(brightness) ==
    brightness > self.threshold_lower_brightness_non_dimmable_lights

\* C4 as stated: when a call supplies both a color temperature and a
\* chromaticity the chromaticity decides: the hue-color bucket is sent the
\* supplied chromaticity and no color temperature, the on/off bucket is on and
\* the dimmable bucket is lit by the saturation, not by the temperature range.
C4_BothSuppliedChromaticityWins ==
    InCall /\ BothSupplied =>
        /\ \A c \in CommandsFor(TEMPERATURE_AND_COLOR) :
              /\ ATTR_HS_COLOR \in DOMAIN c.data
              /\ c.data[ATTR_HS_COLOR] = call.kwargs[ATTR_HS_COLOR]
              /\ ATTR_COLOR_TEMP \notin DOMAIN c.data
        /\ \A c \in CommandsFor(NON_DIMMABLE) :
              (c.service = SERVICE_TURN_ON) =
                 (AboveBrightnessThreshold(Locals.new_brightness)
                  /\ BelowSaturationThreshold(call.kwargs[ATTR_HS_COLOR][2]))
        /\ \A c \in CommandsFor(DIMMABLE) :
              c.data[ATTR_BRIGHTNESS] =
                 IF BelowSaturationThreshold(call.kwargs[ATTR_HS_COLOR][2])
                 THEN Locals.new_brightness ELSE 0

\* C4 amended: when a call supplies both a color temperature and a
\* chromaticity the color temperature decides: the hue-color bucket is sent
\* the supplied color temperature and no chromaticity, the on/off bucket is on
\* and the dimmable bucket is lit by the temperature range, not by the
\* saturation.
C4_BothSuppliedTemperatureWins ==
    InCall /\ BothSupplied =>
        /\ \A c \in CommandsFor(TEMPERATURE_AND_COLOR) :
              /\ ATTR_COLOR_TEMP \in DOMAIN c.data
              /\ c.data[ATTR_COLOR_TEMP] = call.kwargs[ATTR_COLOR_TEMP]
              /\ ATTR_HS_COLOR \notin DOMAIN c.data
        /\ \A c \in CommandsFor(NON_DIMMABLE) :
              (c.service = SERVICE_TURN_ON) =
                 (AboveBrightnessThreshold(Locals.new_brightness)
                  /\ InTemperatureRange(call.kwargs[ATTR_COLOR_TEMP]))
        /\ \A c \in CommandsFor(DIMMABLE) :
              c.data[ATTR_BRIGHTNESS] =
                 IF InTemperatureRange(call.kwargs[ATTR_COLOR_TEMP])
                 THEN Locals.new_brightness ELSE 0

\* both are supplied, the two bases disagree (the temperature is in range,
\* the chromaticity saturated), and the hue-color and the dimmable buckets
\* are sent their calls
C4_Witness ==
    /\ InCall
    /\ BothSupplied
    /\ InTemperatureRange(call.kwargs[ATTR_COLOR_TEMP])
    /\ ~BelowSaturationThreshold(call.kwargs[ATTR_HS_COLOR][2])
    /\ CommandsFor(TEMPERATURE_AND_COLOR) # {}
    /\ \E c \in CommandsFor(DIMMABLE) : c.data[ATTR_BRIGHTNESS] > 0

\* C5: the call sent to a non-empty hue-color bucket carries the resolved
\* brightness and exactly one of color temperature and chromaticity: the
\* resolved color temperature when the on/off and dimmable projections go by
\* the color temperature, the resolved chromaticity when they go by the
\* saturation.
C5_HueColorGetsExactlyOneColorAttribute ==
    InCall =>
        /\ (call.buckets[TEMPERATURE_AND_COLOR] # << >>) =
              (CommandsFor(TEMPERATURE_AND_COLOR) # {})
        /\ \A c \in CommandsFor(TEMPERATURE_AND_COLOR) :
              /\ c.service = SERVICE_TURN_ON
              /\ ATTR_BRIGHTNESS \in DOMAIN c.data
              /\ c.data[ATTR_BRIGHTNESS] = Locals.new_brightness
              /\ (ATTR_COLOR_TEMP \in DOMAIN c.data) # (ATTR_HS_COLOR \in DOMAIN c.data)
              /\ IF Locals.hs_color_has_newer_value_than_color_temp
                 THEN /\ ATTR_HS_COLOR \in DOMAIN c.data
                      /\ c.data[ATTR_HS_COLOR] = Locals.new_hs_color
                      /\ Locals.new_non_dimmable_on =
                            (AboveBrightnessThreshold(Locals.new_brightness)
                             /\ BelowSaturationThreshold(Locals.new_hs_color[2]))
                 ELSE /\ ATTR_COLOR_TEMP \in DOMAIN c.data
                      /\ c.data[ATTR_COLOR_TEMP] = Locals.new_color_temp
                      /\ Locals.new_non_dimmable_on =
                            (AboveBrightnessThreshold(Locals.new_brightness)
                             /\ InTemperatureRange(Locals.new_color_temp))

\* the hue-color bucket is sent a chromaticity that the call converted from
\* a color temperature carried over
C5_Witness ==
    /\ InCall
    /\ Locals.do_convert_temp_to_hs
    /\ Locals.using_old_color_temp
    /\ \E c \in CommandsFor(TEMPERATURE_AND_COLOR) :
          /\ ATTR_HS_COLOR \in DOMAIN c.data
          /\ c.data[ATTR_BRIGHTNESS] = 100

BareTurnOnFromOff == InCall /\ Locals.was_off /\ DOMAIN call.kwargs = {}

\* C6 as stated: a bare turn-on of a group that is off turns the on/off bucket
\* on exactly when the default saturation is below the saturation threshold
\* and the default brightness above the brightness threshold.
C6_BareTurnOnOnOffBySaturation ==
    BareTurnOnFromOff =>
        \A c \in CommandsFor(NON_DIMMABLE) :
            (c.service = SERVICE_TURN_ON) =
               (BelowSaturationThreshold(self.default_s)
                /\ AboveBrightnessThreshold(self.default_brightness))

\* C6 amended: a bare turn-on of a group that is off turns the on/off bucket
\* on exactly when the default color temperature lies within the temperature
\* thresholds and the default brightness is above the brightness threshold,
\* and off otherwise; with the shipped defaults (320 mireds within 175..450,
\* brightness 255 above 205) it is on.
C6_BareTurnOnOnOffByTemperature ==
    BareTurnOnFromOff =>
        \A c \in CommandsFor(NON_DIMMABLE) :
            /\ c.service \in {SERVICE_TURN_ON, SERVICE_TURN_OFF}
            /\ (c.service = SERVICE_TURN_ON) =
                  (InTemperatureRange(self.default_color_temp)
                   /\ AboveBrightnessThreshold(self.default_brightness))
            /\ (/\ self.default_color_temp = 320
                /\ self.default_brightness = 255
                /\ self.threshold_lower_temperature_white_lights = 175
                /\ self.threshold_upper_temperature_white_lights = 450
                /\ self.threshold_lower_brightness_non_dimmable_lights = 205)
               => c.service = SERVICE_TURN_ON

\* the on/off bucket is turned on by a bare turn-on although the default
\* saturation is not below the threshold
C6_Witness ==
    /\ BareTurnOnFromOff
    /\ ~BelowSaturationThreshold(self.default_s)
    /\ \E c \in CommandsFor(NON_DIMMABLE) : c.service = SERVICE_TURN_ON

C7_Case ==
    /\ InCall
    /\ ~Locals.was_off
    /\ Locals.old_brightness = Some(100)
    /\ Locals.old_hs_color # None
    /\ Val(Locals.old_hs_color)[2] = 70000
    /\ self.auto_convert_temp_to_hs
    /\ self.auto_adapt_white_value
    /\ call.kwargs = KwArgs(None, Some(300), None, None)

\* C7: the group is on with brightness 100 and saturation 70, both toggles
\* enabled; a call with color temperature 300 alone resolves the chromaticity
\* to the conversion of 300 mireds (hue 27.355, saturation 48.529) and not
\* the previous one, the white value to the derivation from that chromaticity
\* and brightness 100 (which is 20), keeps brightness 100, and sends the
\* dimmable bucket brightness 100 if 300 is within the temperature thresholds
\* and 0 otherwise.
C7_TemperatureAloneReconvertsAndRederives ==
    C7_Case =>
        /\ Locals.new_color_temp = 300
        /\ Locals.new_hs_color = <<27355, 48529>>
        /\ Locals.new_hs_color = hs_color_for_temperature(300)
        /\ Locals.new_hs_color # Val(Locals.old_hs_color)
        /\ Locals.new_white_value = 20
        /\ Locals.new_white_value = calculate_white_value(self, <<27355, 48529>>, 100)
        /\ Locals.new_brightness = 100
        /\ \A c \in CommandsFor(DIMMABLE) :
              c.data[ATTR_BRIGHTNESS] = IF InTemperatureRange(300) THEN 100 ELSE 0

\* the case, with 300 mireds outside the thresholds: the dimmable bucket is
\* sent brightness 0
C7_Witness ==
    /\ C7_Case
    /\ ~InTemperatureRange(300)
    /\ Locals.old_white_value # None
    /\ \E c \in CommandsFor(DIMMABLE) : c.data[ATTR_BRIGHTNESS] = 0

\* C8: async_turn_on returns, normally or with an exception, only once every
\* service call it issued has completed or failed: no call of it is still
\* running when it has returned.
C8_ReturnsAfterEveryCommandSettled ==
    pc \in {"returned", "raised"} =>
        \A i \in DOMAIN commands : commands[i].status # "pending"

Target(c) ==
    [brightness |-> c.locals.new_brightness, color_temp |-> c.locals.new_color_temp,
     hs_color |-> c.locals.new_hs_color, white_value |-> c.locals.new_white_value]

Issued(cmds) ==
    [i \in DOMAIN cmds |->
        [bucket |-> cmds[i].bucket, service |-> cmds[i].service, data |-> cmds[i].data]]

\* C9: no step of a call (its resolution, the completion or failure of its
\* service calls, its return) changes the group's own state: is_on,
\* available, brightness, hs_color, color_temp, white_value, effect,
\* effect_list, supported_features and the mireds range.  So a call that
\* follows a finished call with the same arguments, with no update of the
\* group in between, resolves the same target and issues the same service
\* calls.
C9_TurnOnLeavesGroupState ==
    [][/\ pc' # "idle" => GroupState(self') = GroupState(self)
       /\ (pc \in {"returned", "raised"} /\ pc' # "idle"
           /\ call'.kwargs = call.kwargs) =>
              /\ Target(call') = Target(call)
              /\ Issued(commands') = Issued(commands)]_vars

\* a second call with the same color temperature alone follows the first on
\* a group that is on; what it resolves depends on the values the group
\* holds (the chromaticity is converted, the brightness carried over)
C9_Witness ==
    /\ InCall
    /\ call.repeated
    /\ ~Locals.was_off
    /\ DOMAIN call.kwargs = {ATTR_COLOR_TEMP}
    /\ Locals.using_old_brightness
    /\ Locals.do_convert_temp_to_hs
    /\ commands # << >>

\* C10: whenever a call converts a color temperature to a chromaticity, the
\* mireds value it hands to the conversion lies within the group's
\* [min_mireds, max_mireds].
C10_ConvertedTemperatureWithinMireds ==
    InCall /\ Locals.converted_temperature # None =>
        /\ self.min_mireds <= Val(Locals.converted_temperature)
        /\ Val(Locals.converted_temperature) <= self.max_mireds

CallsFor(bucket) == {i \in DOMAIN commands : commands[i].bucket = bucket}

CallsNaming(e) == {i \in DOMAIN commands : e \in Range(commands[i].data.entity_id)}

NonEmptyBuckets == {b \in Buckets : call.buckets[b] # << >>}

\* C11: a call issues exactly one service call for each bucket that holds a
\* member, carrying that bucket's members, and none for an empty bucket.  So
\* every member with a state is named in exactly one service call, and the
\* number of service calls is the number of non-empty buckets.  When no
\* member has a state nothing is issued and the call returns without
\* awaiting anything.
C11_OneCommandPerNonEmptyBucket ==
    InCall =>
        /\ \A b \in Buckets :
              IF call.buckets[b] # << >>
              THEN /\ Cardinality(CallsFor(b)) = 1
                   /\ \A i \in CallsFor(b) : commands[i].data.entity_id = call.buckets[b]
              ELSE CallsFor(b) = {}
        /\ Len(commands) = Cardinality(NonEmptyBuckets)
        /\ \A e \in Members : states[e] # None => Cardinality(CallsNaming(e)) = 1
        /\ (\A e \in Members : states[e] = None) => commands = << >> /\ pc = "returned"

\* a call on two members of different buckets issued two service calls
C11_Witness ==
    /\ InCall
    /\ Cardinality(NonEmptyBuckets) = 2
    /\ Len(commands) = 2
    /\ \A e \in Members : states[e] # None

\* a call on a group none of whose members has a state returned with
\* nothing issued
C11_WitnessNoneReachable ==
    /\ pc = "returned"
    /\ Members # {}
    /\ \A e \in Members : states[e] = None
    /\ commands = << >>

\* C12: the value a call resolves for an attribute its request supplies is
\* the supplied value, for each of brightness, color temperature,
\* chromaticity and white value, whatever the group's previous state and
\* configuration: the conversion of the color temperature to a chromaticity
\* happens only when no chromaticity is supplied, the derivation of the
\* white value only when no white value is supplied.
C12_SuppliedValuesAreKept ==
    InCall =>
        /\ Supplied(call.kwargs, ATTR_BRIGHTNESS) =>
              Locals.new_brightness = call.kwargs[ATTR_BRIGHTNESS]
        /\ Supplied(call.kwargs, ATTR_COLOR_TEMP) =>
              Locals.new_color_temp = call.kwargs[ATTR_COLOR_TEMP]
        /\ Supplied(call.kwargs, ATTR_HS_COLOR) =>
              Locals.new_hs_color = call.kwargs[ATTR_HS_COLOR]
        /\ Supplied(call.kwargs, ATTR_WHITE_VALUE) =>
              Locals.new_white_value = call.kwargs[ATTR_WHITE_VALUE]
        /\ Locals.do_convert_temp_to_hs => Unsupplied(ATTR_HS_COLOR)
        /\ Locals.do_adapt_white_value => Unsupplied(ATTR_WHITE_VALUE)

\* a call supplies all four attributes to a group that is on and holds
\* previous values, with the conversion and the derivation both enabled, and
\* the supplied chromaticity and white value are not what the conversion and
\* the derivation would give
C12_Witness ==
    /\ InCall
    /\ DOMAIN call.kwargs = LightAttrs
    /\ ~Locals.was_off
    /\ Locals.old_hs_color # None
    /\ Locals.old_white_value # None
    /\ self.auto_convert_temp_to_hs
    /\ self.auto_adapt_white_value
    /\ call.kwargs[ATTR_HS_COLOR] # hs_color_for_temperature(call.kwargs[ATTR_COLOR_TEMP])
    /\ call.kwargs[ATTR_WHITE_VALUE] #
          calculate_white_value(self, call.kwargs[ATTR_HS_COLOR], call.kwargs[ATTR_BRIGHTNESS])

=============================================================================
